---- MODULE Spec2Model ----
(***************************************************************************)
(* Model of the TMP117 driver (src/src/lib.rs): the bit-field registers,   *)
(* the device handle Tmp117<I2C> with its cached Configuration word, and   *)
(* the bus transactions each public operation issues on the transport.     *)
(*                                                                         *)
(* Number representation.  f32 values (Celsius) are modelled exactly as    *)
(* integers counting 1/TicksPerCelsius degree.  Every value used here is a *)
(* multiple of 2^-8 of magnitude below 2^10, so it is an exact f32 and the *)
(* f32 division and multiplication by CELSIUS_PER_BIT (= 2^-7) are exact.  *)
(***************************************************************************)
EXTENDS Integers, Sequences, FiniteSets, TLC

VARIABLES
  live,       \* TRUE while a Tmp117 handle exists
  address,    \* Tmp117.address of the handle
  config,     \* Tmp117.config of the handle: the cached Configuration word
  lastOp,     \* the operation that ran last
  arg,        \* the Celsius argument of the last operation (0 when it has none)
  feed,       \* what the transport answered to each call of the last operation
  bus,        \* the calls the transport received during the last operation
  result,     \* what the last operation returned
  cfgPc,      \* codec exercise: position
  cfgFields,  \* codec exercise: the typed fields given
  cfgWord,    \* codec exercise: the 16-bit word
  cfgOut      \* codec exercise: the typed fields decoded

vars == <<live, address, config, lastOp, arg, feed, bus, result,
          cfgPc, cfgFields, cfgWord, cfgOut>>

driverVars == <<live, address, config, lastOp, arg, feed, bus, result>>

codecVars == <<cfgPc, cfgFields, cfgWord, cfgOut>>

----------------------------------------------------------------------------
(* Bounds of the model *)

\* Celsius limits within MaxSmallLimit ticks of zero are all tried.
MaxSmallLimit == 5

----------------------------------------------------------------------------
(* Integer helpers *)

Pow2(n) == 2 ^ n

\* Quotient of a by b (b > 0) rounded toward zero.
TruncDiv(a, b) == IF a < 0 THEN -((-a) \div b) ELSE a \div b

----------------------------------------------------------------------------
(* Error<E> *)

\* Errors the transport (type parameter E) may report.
TransportErrors == {"Nack", "ArbitrationLoss"}

Ok(v) == [tag |-> "Ok", val |-> v, err |-> "none"]

ErrorI2C(e) == [tag |-> "I2C", val |-> <<>>, err |-> e]

ErrorUnsupportedDevice == [tag |-> "UnsupportedDevice", val |-> <<>>, err |-> "none"]

NoResult == [tag |-> "None", val |-> <<>>, err |-> "none"]

----------------------------------------------------------------------------
(* Address *)

Add0Connections == {"Ground", "Vplus", "Sda", "Scl"}

AddressFrom(connection) ==
  CASE connection = "Ground" -> 72
    [] connection = "Vplus" -> 73
    [] connection = "Sda" -> 74
    [] connection = "Scl" -> 75

AddressDefault == AddressFrom("Ground")

\* Address's field is pub(crate): a caller obtains an Address only from an
\* Add0Connection or from Default.
Addresses == {AddressFrom(c) : c \in Add0Connections}

----------------------------------------------------------------------------
(* Bit-field enums *)

ConversionModes == {"Continuous", "Shutdown", "OneShot"}

\* Variant: OneShot is given the unassigned pattern.
ConversionModeToBits_OneShotAs3(m) ==
  CASE m = "Continuous" -> 0
    [] m = "Shutdown" -> 1
    [] m = "OneShot" -> 3

ConversionModeToBits(m) ==
  CASE m = "Continuous" -> 0
    [] m = "Shutdown" -> 1
    [] m = "OneShot" -> 2

\* #[fallback] on Continuous: every unassigned pattern decodes to it.
ConversionModeFromBits(b) ==
  IF b = 1 THEN "Shutdown" ELSE IF b = 2 THEN "OneShot" ELSE "Continuous"

Averages == {"NoAverage", "Average8", "Average32", "Average64"}

AverageToBits(a) ==
  CASE a = "NoAverage" -> 0
    [] a = "Average8" -> 1
    [] a = "Average32" -> 2
    [] a = "Average64" -> 3

AverageFromBits(b) ==
  CASE b = 0 -> "NoAverage"
    [] b = 1 -> "Average8"
    [] b = 2 -> "Average32"
    [] b = 3 -> "Average64"

Polarities == {"ActiveLow", "ActiveHigh"}

PolarityToBits(p) == IF p = "ActiveHigh" THEN 1 ELSE 0

PolarityFromBits(b) == IF b = 1 THEN "ActiveHigh" ELSE "ActiveLow"

AlertSelects == {"Alert", "DataReady"}

AlertSelectToBits(s) == IF s = "DataReady" THEN 1 ELSE 0

AlertSelectFromBits(b) == IF b = 1 THEN "DataReady" ELSE "Alert"

BoolToBits(x) == IF x THEN 1 ELSE 0

BoolFromBits(b) == b = 1

----------------------------------------------------------------------------
(* Configuration: a 16-bit word whose fields are packed in declaration     *)
(* order starting at the least-significant bit.                            *)

ConfigurationLayout ==
  << [name |-> "_reserved", width |-> 1],
     [name |-> "soft_reset", width |-> 1],
     [name |-> "dr_alert", width |-> 1],
     [name |-> "high_alert", width |-> 1],
     [name |-> "pol", width |-> 1],
     [name |-> "t_na", width |-> 1],
     [name |-> "avg", width |-> 2],
     [name |-> "conv", width |-> 3],
     [name |-> "mode", width |-> 2],
     [name |-> "eeprom_busy", width |-> 1],
     [name |-> "data_ready", width |-> 1],
     [name |-> "low_alert", width |-> 1] >>

RECURSIVE WidthBefore(_, _)
WidthBefore(layout, i) ==
  IF i <= 1 THEN 0 ELSE layout[i - 1].width + WidthBefore(layout, i - 1)

FieldIndex(layout, name) ==
  CHOOSE i \in 1..Len(layout) : layout[i].name = name

FieldOffset(layout, name) == WidthBefore(layout, FieldIndex(layout, name))

FieldWidth(layout, name) == layout[FieldIndex(layout, name)].width

\* Getter of a field: the raw bits of the field.
GetBits(layout, w, name) ==
  (w \div Pow2(FieldOffset(layout, name))) % Pow2(FieldWidth(layout, name))

\* Setter of a field: replaces the field's bits and keeps all others.
SetBits(layout, w, name, b) ==
  w - GetBits(layout, w, name) * Pow2(FieldOffset(layout, name))
    + (b % Pow2(FieldWidth(layout, name))) * Pow2(FieldOffset(layout, name))

ConfigurationMode(w) == ConversionModeFromBits(GetBits(ConfigurationLayout, w, "mode"))

ConfigurationSoftReset(w) == BoolFromBits(GetBits(ConfigurationLayout, w, "soft_reset"))

\* Variant: the word is rebuilt from the mode alone.
SetMode_Clobber(w, m) ==
  ConversionModeToBits(m) * Pow2(FieldOffset(ConfigurationLayout, "mode"))

SetMode(w, m) == SetBits(ConfigurationLayout, w, "mode", ConversionModeToBits(m))

\* Variant: the bit can be set and is never cleared.
SetSoftReset_Sticky(w, x) == SetBits(ConfigurationLayout, w, "soft_reset", 1)

SetSoftReset(w, x) == SetBits(ConfigurationLayout, w, "soft_reset", BoolToBits(x))

\* Every value the typed fields of a Configuration can take.
Configurations ==
  [ _reserved : BOOLEAN, soft_reset : BOOLEAN, dr_alert : AlertSelects,
    high_alert : BOOLEAN, pol : Polarities, t_na : AlertSelects,
    avg : Averages, conv : 0..7, mode : ConversionModes,
    eeprom_busy : BOOLEAN, data_ready : BOOLEAN, low_alert : BOOLEAN ]

\* The raw bits of each field of f.
ConfigurationFieldBits(f) ==
  [ _reserved |-> BoolToBits(f._reserved),
    soft_reset |-> BoolToBits(f.soft_reset),
    dr_alert |-> AlertSelectToBits(f.dr_alert),
    high_alert |-> BoolToBits(f.high_alert),
    pol |-> PolarityToBits(f.pol),
    t_na |-> AlertSelectToBits(f.t_na),
    avg |-> AverageToBits(f.avg),
    conv |-> f.conv,
    mode |-> ConversionModeToBits(f.mode),
    eeprom_busy |-> BoolToBits(f.eeprom_busy),
    data_ready |-> BoolToBits(f.data_ready),
    low_alert |-> BoolToBits(f.low_alert) ]

RECURSIVE PackFrom(_, _, _)
PackFrom(layout, bits, i) ==
  IF i > Len(layout) THEN 0
  ELSE bits[layout[i].name] * Pow2(WidthBefore(layout, i))
         + PackFrom(layout, bits, i + 1)

\* Encoding: the word built from the typed fields (Configuration::new).
ConfigurationNew(f) == PackFrom(ConfigurationLayout, ConfigurationFieldBits(f), 1)

\* Decoding: the typed view of a word (the field getters).
ConfigurationFields(w) ==
  [ _reserved |-> BoolFromBits(GetBits(ConfigurationLayout, w, "_reserved")),
    soft_reset |-> BoolFromBits(GetBits(ConfigurationLayout, w, "soft_reset")),
    dr_alert |-> AlertSelectFromBits(GetBits(ConfigurationLayout, w, "dr_alert")),
    high_alert |-> BoolFromBits(GetBits(ConfigurationLayout, w, "high_alert")),
    pol |-> PolarityFromBits(GetBits(ConfigurationLayout, w, "pol")),
    t_na |-> AlertSelectFromBits(GetBits(ConfigurationLayout, w, "t_na")),
    avg |-> AverageFromBits(GetBits(ConfigurationLayout, w, "avg")),
    conv |-> GetBits(ConfigurationLayout, w, "conv"),
    mode |-> ConversionModeFromBits(GetBits(ConfigurationLayout, w, "mode")),
    eeprom_busy |-> BoolFromBits(GetBits(ConfigurationLayout, w, "eeprom_busy")),
    data_ready |-> BoolFromBits(GetBits(ConfigurationLayout, w, "data_ready")),
    low_alert |-> BoolFromBits(GetBits(ConfigurationLayout, w, "low_alert")) ]

\* Configuration::default(): Self::from(0x0220).
ConfigurationDefault == 544

----------------------------------------------------------------------------
(* DeviceId *)

DeviceIdLayout ==
  << [name |-> "did", width |-> 12],
     [name |-> "rev", width |-> 4] >>

DeviceIdDid(w) == GetBits(DeviceIdLayout, w, "did")

DeviceIdRev(w) == GetBits(DeviceIdLayout, w, "rev")

\* DeviceId::from(u16) wraps the word; u16::from(DeviceId) (id.into()) gives
\* the whole word back.
DeviceIdFrom(w) == w % Pow2(16)

DeviceIdInto(id) == id

----------------------------------------------------------------------------
(* Register map and driver constants *)

TEMP_RESULT == 0

CONFIGURATION == 1

THIGH_LIMIT == 2

TLOW_LIMIT == 3

DEVICE_ID == 15

\* Tmp117::TMP117 = 0x0117
TMP117 == 279

\* Ticks per degree Celsius in the integer representation of f32 values.
TicksPerCelsius == 256

\* Tmp117::CELSIUS_PER_BIT = 7.8125 / 1000.0, in ticks.
CELSIUS_PER_BIT == (78125 * TicksPerCelsius) \div 10000000

----------------------------------------------------------------------------
(* Primitive conversions *)

\* u16::to_be_bytes
ToBeBytes(w) == << w \div 256, w % 256 >>

\* u16::from_be_bytes
FromBeBytes(b) == b[1] * 256 + b[2]

\* Variant: the word is taken as unsigned.
AsI16_Unsigned(w) == w

\* `x as i16` of a u16: reinterpretation as two's complement.
AsI16(w) == IF w >= 32768 THEN w - 65536 ELSE w

\* `(a / b) as u16` of f32 values a, b (b > 0): the quotient is truncated
\* toward zero and saturated to the range of u16.
F32DivAsU16(a, b) ==
  LET q == TruncDiv(a, b)
  IN IF q < 0 THEN 0 ELSE IF q > 65535 THEN 65535 ELSE q

\* `(n as f32) * b` of an i16 n.
I16AsF32Times(n, b) == n * b

----------------------------------------------------------------------------
(* The transport (embedded_hal::blocking::i2c) *)

WriteCall(addr, bytes) ==
  [kind |-> "write", addr |-> addr, wr |-> bytes, rdlen |-> 0]

WriteReadCall(addr, bytes, n) ==
  [kind |-> "write_read", addr |-> addr, wr |-> bytes, rdlen |-> n]

\* Words a device may answer to a read, as the two bytes received.
ReplyBytes ==
  { <<1, 23>>, <<17, 23>>, <<241, 23>>, <<0, 66>>, <<1, 144>>, <<254, 112>>,
    <<0, 0>>, <<127, 255>>, <<128, 0>>, <<255, 255>> }

Outcomes == {"ok"} \cup TransportErrors

\* An answer of the transport to one call: success or an error, and the
\* bytes it put into the read buffer.
Answers ==
  [outcome : {"ok"}, bytes : ReplyBytes]
    \cup [outcome : TransportErrors, bytes : {<<0, 0>>}]

\* Celsius values given as limits, in ticks.
Limits ==
  (-MaxSmallLimit..MaxSmallLimit)
    \cup { 800, -800, 801, -801, 65534, 65535, -65536, -65537,
           65536, 131070, 131071, 131072, -131072 }

----------------------------------------------------------------------------
(* Private helpers of Tmp117 *)

\* Variant: the register address byte is left out of the frame.
write_register_NoRegister(addr, register, contents, answer) ==
  [ bus |-> << [kind |-> "write", addr |-> addr,
                wr |-> << contents[1], contents[2] >>, rdlen |-> 0] >>,
    res |-> IF answer.outcome = "ok" THEN Ok(<<>>) ELSE ErrorI2C(answer.outcome) ]

\* Variant: a failed write is attempted a second time.
write_register_Retry(addr, register, contents, answer) ==
  LET call == [kind |-> "write", addr |-> addr,
               wr |-> << register, contents[1], contents[2] >>, rdlen |-> 0]
  IN [ bus |-> IF answer.outcome = "ok" THEN << call >> ELSE << call, call >>,
       res |-> IF answer.outcome = "ok" THEN Ok(<<>>) ELSE ErrorI2C(answer.outcome) ]

\* write_register: one write of [register, contents[0], contents[1]].
write_register(addr, register, contents, answer) ==
  [ bus |-> << WriteCall(addr, << register, contents[1], contents[2] >>) >>,
    res |-> IF answer.outcome = "ok" THEN Ok(<<>>) ELSE ErrorI2C(answer.outcome) ]

\* read_register: one write_read of [register] reading 2 bytes.
read_register(addr, register, answer) ==
  [ bus |-> << WriteReadCall(addr, << register >>, 2) >>,
    res |-> IF answer.outcome = "ok"
              THEN Ok(FromBeBytes(answer.bytes))
              ELSE ErrorI2C(answer.outcome) ]

\* device_id
device_id(addr, answer) ==
  LET r == read_register(addr, DEVICE_ID, answer)
  IN [ bus |-> r.bus,
       res |-> IF r.res.tag = "Ok"
                 THEN Ok(DeviceIdInto(DeviceIdFrom(r.res.val)))
                 ELSE r.res ]

build_instance(addr, cfg) == [address |-> addr, config |-> cfg]

\* validate
validate(addr, cfg, answer) ==
  LET tmp == build_instance(addr, cfg)
      id == device_id(tmp.address, answer)
  IN [ bus |-> id.bus,
       res |-> IF id.res.tag # "Ok" THEN id.res
               ELSE IF id.res.val # TMP117 THEN ErrorUnsupportedDevice
               ELSE Ok(tmp) ]

----------------------------------------------------------------------------
(* Initial state: the caller owns a transport and no handle exists yet. *)

NoFields == ConfigurationFields(0)

CodecIdle ==
  /\ cfgPc = "idle"
  /\ cfgFields = NoFields
  /\ cfgWord = 0
  /\ cfgOut = NoFields

Init ==
  /\ live = FALSE
  /\ address = 0
  /\ config = 0
  /\ lastOp = "none"
  /\ arg = 0
  /\ feed = <<>>
  /\ bus = <<>>
  /\ result = NoResult
  /\ CodecIdle

----------------------------------------------------------------------------
(* Construction without bus I/O *)

Construct(op, addr, cfg) ==
  /\ ~live
  /\ live' = TRUE
  /\ address' = build_instance(addr, cfg).address
  /\ config' = build_instance(addr, cfg).config
  /\ lastOp' = op
  /\ arg' = 0
  /\ feed' = <<>>
  /\ bus' = <<>>
  /\ result' = Ok(build_instance(addr, cfg))
  /\ UNCHANGED codecVars

New == Construct("new", AddressDefault, ConfigurationDefault)

NewWithAdd0Connection ==
  \E c \in Add0Connections :
    Construct("new_with_add0_connection", AddressFrom(c), ConfigurationDefault)

NewWithAddress ==
  \E a \in Addresses :
    Construct("new_with_address", a, ConfigurationDefault)

Destroy ==
  /\ live
  /\ live' = FALSE
  /\ address' = 0
  /\ config' = 0
  /\ lastOp' = "destroy"
  /\ arg' = 0
  /\ feed' = <<>>
  /\ bus' = <<>>
  /\ result' = NoResult
  /\ UNCHANGED codecVars

----------------------------------------------------------------------------
(* Construction with identification *)

Validated(op, addr, cfg) ==
  \E answer \in Answers :
    LET v == validate(addr, cfg, answer)
    IN /\ ~live
       /\ live' = (v.res.tag = "Ok")
       /\ address' = IF v.res.tag = "Ok" THEN v.res.val.address ELSE 0
       /\ config' = IF v.res.tag = "Ok" THEN v.res.val.config ELSE 0
       /\ lastOp' = op
       /\ arg' = 0
       /\ feed' = << answer >>
       /\ bus' = v.bus
       /\ result' = v.res
       /\ UNCHANGED codecVars

Identify == Validated("identify", AddressDefault, ConfigurationDefault)

IdentifyWithAdd0Connection ==
  \E c \in Add0Connections :
    Validated("identify_with_add0_connection", AddressFrom(c), ConfigurationDefault)

IdentifyWithAddress ==
  \E a \in Addresses :
    Validated("identify_with_address", a, ConfigurationDefault)

----------------------------------------------------------------------------
(* Mutating operations *)

Enable ==
  \E answer \in [outcome : Outcomes, bytes : {<<0, 0>>}] :
    LET cfg == SetMode(config, "Continuous")
        contents == ToBeBytes(cfg)
        w == write_register(address, CONFIGURATION, contents, answer)
    IN /\ live
       /\ config' = cfg
       /\ lastOp' = "enable"
       /\ arg' = 0
       /\ feed' = << answer >>
       /\ bus' = w.bus
       /\ result' = w.res
       /\ UNCHANGED <<live, address>>
       /\ UNCHANGED codecVars

Disable ==
  \E answer \in [outcome : Outcomes, bytes : {<<0, 0>>}] :
    LET cfg == SetMode(config, "Shutdown")
        contents == ToBeBytes(cfg)
        w == write_register(address, CONFIGURATION, contents, answer)
    IN /\ live
       /\ config' = cfg
       /\ lastOp' = "disable"
       /\ arg' = 0
       /\ feed' = << answer >>
       /\ bus' = w.bus
       /\ result' = w.res
       /\ UNCHANGED <<live, address>>
       /\ UNCHANGED codecVars

Reset ==
  \E answer \in [outcome : Outcomes, bytes : {<<0, 0>>}] :
    LET cfg1 == SetSoftReset(config, TRUE)
        contents == ToBeBytes(cfg1)
        cfg2 == SetSoftReset(cfg1, FALSE)
        w == write_register(address, CONFIGURATION, contents, answer)
    IN /\ live
       /\ config' = cfg2
       /\ lastOp' = "reset"
       /\ arg' = 0
       /\ feed' = << answer >>
       /\ bus' = w.bus
       /\ result' = w.res
       /\ UNCHANGED <<live, address>>
       /\ UNCHANGED codecVars

SetLimit(op, register) ==
  \E limit \in Limits, answer \in [outcome : Outcomes, bytes : {<<0, 0>>}] :
    LET temp == F32DivAsU16(limit, CELSIUS_PER_BIT)
        contents == ToBeBytes(temp)
        w == write_register(address, register, contents, answer)
    IN /\ live
       /\ lastOp' = op
       /\ arg' = limit
       /\ feed' = << answer >>
       /\ bus' = w.bus
       /\ result' = w.res
       /\ UNCHANGED <<live, address, config>>
       /\ UNCHANGED codecVars

SetThighLimit == SetLimit("set_thigh_limit", THIGH_LIMIT)

SetTlowLimit == SetLimit("set_tlow_limit", TLOW_LIMIT)

----------------------------------------------------------------------------
(* Read operations *)

ReadDeviceId ==
  \E answer \in Answers :
    LET d == device_id(address, answer)
    IN /\ live
       /\ lastOp' = "device_id"
       /\ arg' = 0
       /\ feed' = << answer >>
       /\ bus' = d.bus
       /\ result' = d.res
       /\ UNCHANGED <<live, address, config>>
       /\ UNCHANGED codecVars

ReadTemperature ==
  \E answer \in Answers :
    LET r == read_register(address, TEMP_RESULT, answer)
    IN /\ live
       /\ lastOp' = "read_temperature"
       /\ arg' = 0
       /\ feed' = << answer >>
       /\ bus' = r.bus
       /\ result' = IF r.res.tag = "Ok"
                      THEN Ok(I16AsF32Times(AsI16(r.res.val), CELSIUS_PER_BIT))
                      ELSE r.res
       /\ UNCHANGED <<live, address, config>>
       /\ UNCHANGED codecVars

\* Variant: the Low Limit register is read first.
ReadTemperatureLimits_LowFirst ==
  \E a1 \in Answers, a2 \in Answers :
    LET r1 == read_register(address, TLOW_LIMIT, a1)
        r2 == read_register(address, THIGH_LIMIT, a2)
    IN /\ live
       /\ lastOp' = "read_temperature_limits"
       /\ arg' = 0
       /\ IF r1.res.tag # "Ok"
            THEN /\ feed' = << a1 >>
                 /\ bus' = r1.bus
                 /\ result' = r1.res
            ELSE /\ feed' = << a1, a2 >>
                 /\ bus' = r1.bus \o r2.bus
                 /\ result' =
                      IF r2.res.tag # "Ok" THEN r2.res
                      ELSE Ok(<< I16AsF32Times(AsI16(r2.res.val), CELSIUS_PER_BIT),
                                 I16AsF32Times(AsI16(r1.res.val), CELSIUS_PER_BIT) >>)
       /\ UNCHANGED <<live, address, config>>
       /\ UNCHANGED codecVars

ReadTemperatureLimits ==
  \E a1 \in Answers, a2 \in Answers :
    LET r1 == read_register(address, THIGH_LIMIT, a1)
        r2 == read_register(address, TLOW_LIMIT, a2)
    IN /\ live
       /\ lastOp' = "read_temperature_limits"
       /\ arg' = 0
       /\ IF r1.res.tag # "Ok"
            THEN /\ feed' = << a1 >>
                 /\ bus' = r1.bus
                 /\ result' = r1.res
            ELSE /\ feed' = << a1, a2 >>
                 /\ bus' = r1.bus \o r2.bus
                 /\ result' =
                      IF r2.res.tag # "Ok" THEN r2.res
                      ELSE Ok(<< I16AsF32Times(AsI16(r1.res.val), CELSIUS_PER_BIT),
                                 I16AsF32Times(AsI16(r2.res.val), CELSIUS_PER_BIT) >>)
       /\ UNCHANGED <<live, address, config>>
       /\ UNCHANGED codecVars

----------------------------------------------------------------------------
(* The driver *)

Next ==
  \/ New
  \/ NewWithAdd0Connection
  \/ NewWithAddress
  \/ Destroy
  \/ Identify
  \/ IdentifyWithAdd0Connection
  \/ IdentifyWithAddress
  \/ Enable
  \/ Disable
  \/ Reset
  \/ SetThighLimit
  \/ SetTlowLimit
  \/ ReadDeviceId
  \/ ReadTemperature
  \/ ReadTemperatureLimits

Spec == Init /\ [][Next]_vars

----------------------------------------------------------------------------
(* The Configuration codec exercised on every field combination and on     *)
(* every 16-bit word.                                                      *)

InitCodec ==
  /\ live = FALSE
  /\ address = 0
  /\ config = 0
  /\ lastOp = "none"
  /\ arg = 0
  /\ feed = <<>>
  /\ bus = <<>>
  /\ result = NoResult
  /\ cfgOut = NoFields
  /\ \/ /\ cfgPc = "fields"
        /\ cfgFields \in Configurations
        /\ cfgWord = 0
     \/ /\ cfgPc = "raw"
        /\ cfgFields = NoFields
        /\ cfgWord \in 0..(Pow2(16) - 1)

EncodeConfiguration ==
  /\ cfgPc = "fields"
  /\ cfgWord' = ConfigurationNew(cfgFields)
  /\ cfgPc' = "word"
  /\ UNCHANGED <<cfgFields, cfgOut>>
  /\ UNCHANGED driverVars

DecodeConfiguration ==
  /\ cfgPc = "word"
  /\ cfgOut' = ConfigurationFields(cfgWord)
  /\ cfgPc' = "done"
  /\ UNCHANGED <<cfgFields, cfgWord>>
  /\ UNCHANGED driverVars

DecodeRawWord ==
  /\ cfgPc = "raw"
  /\ cfgOut' = ConfigurationFields(cfgWord)
  /\ cfgPc' = "rawdone"
  /\ UNCHANGED <<cfgFields, cfgWord>>
  /\ UNCHANGED driverVars

NextCodec ==
  \/ EncodeConfiguration
  \/ DecodeConfiguration
  \/ DecodeRawWord

SpecCodec == InitCodec /\ [][NextCodec]_vars

----------------------------------------------------------------------------
(* Vocabulary of the properties *)

IdentifyOps == {"identify", "identify_with_add0_connection", "identify_with_address"}

PlainConstructors == {"new", "new_with_add0_connection", "new_with_address"}

WritingOps == {"enable", "disable", "reset", "set_thigh_limit", "set_tlow_limit"}

\* The register each writing operation addresses.
RegisterOf(op) ==
  CASE op \in {"enable", "disable", "reset"} -> 1
    [] op = "set_thigh_limit" -> 2
    [] op = "set_tlow_limit" -> 3

Bytes == 0..255

\* The 16-bit word received: first byte most significant.
WordOf(bytes) == 256 * bytes[1] + bytes[2]

\* The 16-bit word a 3-byte write frame carries after the register address.
PayloadOf(call) == 256 * call.wr[2] + call.wr[3]

\* Two's-complement encoding of a count n in -32768..32767.
TwosComplement16(n) == (n + 65536) % 65536

\* The signed count a 16-bit word stands for.
SignedCount(w) ==
  CHOOSE n \in -32768..32767 : (n - w) % 65536 = 0

\* A count times the resolution of 1/128 degree, in ticks.
CountToTicks(n) == (n * TicksPerCelsius) \div 128

\* The count of a limit: its quotient by 1/128 degree, truncated toward zero.
LimitCount(limit) ==
  IF limit >= 0 THEN (limit * 128) \div TicksPerCelsius
  ELSE -(((-limit) * 128) \div TicksPerCelsius)

\* 3.125 degrees Celsius in ticks.
Celsius3_125 == (3125 * TicksPerCelsius) \div 1000

----------------------------------------------------------------------------
(* Properties *)

\* C1: identify, identify_with_add0_connection and identify_with_address
\* issue exactly one write-then-read of register 0x0F and return a handle
\* exactly when the read succeeds and the 12-bit identifier field of the
\* reply is 0x117, whatever the revision field holds.
C1_IdentifyByIdentifierField ==
  lastOp \in IdentifyOps =>
    /\ Len(bus) = 1
    /\ bus[1].kind = "write_read"
    /\ bus[1].wr = << 15 >>
    /\ bus[1].rdlen = 2
    /\ (live /\ result.tag = "Ok")
         <=> (feed[1].outcome = "ok" /\ WordOf(feed[1].bytes) % 4096 = 279)
    /\ live <=> result.tag = "Ok"

\* C2: device_id() returns the 12-bit identifier field of the reply, never
\* more than 0x0FFF, after one write-then-read that writes the byte 0x0F and
\* reads 2 bytes.
C2_DeviceIdIsIdentifierField ==
  lastOp = "device_id" =>
    /\ bus = << [kind |-> "write_read", addr |-> address, wr |-> << 15 >>, rdlen |-> 2] >>
    /\ feed[1].outcome = "ok" =>
         /\ result.tag = "Ok"
         /\ result.val = WordOf(feed[1].bytes) % 4096
         /\ result.val <= 4095

\* C3: for a limit whose count n (quotient by 1/128 degree, truncated toward
\* zero) lies in -32768..32767, set_thigh_limit and set_tlow_limit transmit
\* the two's-complement encoding of n, high byte first; 3.125 gives 0x01 0x90
\* and -3.125 gives 0xFE 0x70.
C3_LimitPayloadIsSignedCount ==
  lastOp \in {"set_thigh_limit", "set_tlow_limit"} =>
    /\ LimitCount(arg) \in -32768..32767 =>
         /\ Len(bus) = 1
         /\ Len(bus[1].wr) = 3
         /\ bus[1].wr[2] = TwosComplement16(LimitCount(arg)) \div 256
         /\ bus[1].wr[3] = TwosComplement16(LimitCount(arg)) % 256
    /\ arg = Celsius3_125 => SubSeq(bus[1].wr, 2, 3) = << 1, 144 >>
    /\ arg = -Celsius3_125 => SubSeq(bus[1].wr, 2, 3) = << 254, 112 >>

\* C4: each call of enable, disable, reset, set_thigh_limit or
\* set_tlow_limit issues exactly one bus transaction, a write of 3 bytes
\* [register, high, low] to the handle's address, with register 0x01 for
\* enable/disable/reset, 0x02 for the high and 0x03 for the low limit, and no
\* write-then-read; the handle's address never changes while the handle lives.
C4_OneThreeByteWrite ==
  /\ [](lastOp \in WritingOps =>
          /\ live
          /\ Len(bus) = 1
          /\ bus[1].kind = "write"
          /\ bus[1].addr = address
          /\ address \in {72, 73, 74, 75}
          /\ Len(bus[1].wr) = 3
          /\ bus[1].wr[1] = RegisterOf(lastOp)
          /\ bus[1].wr[2] \in Bytes
          /\ bus[1].wr[3] \in Bytes
          /\ bus[1].rdlen = 0)
  /\ [][(live /\ live') => address' = address]_vars

C4_Witness ==
  /\ lastOp = "set_tlow_limit"
  /\ live
  /\ address = 75
  /\ bus = << [kind |-> "write", addr |-> 75, wr |-> << 3, 1, 144 >>, rdlen |-> 0] >>

\* C5: enable() (disable()) sets the cached word's conversion mode to
\* Continuous (Shutdown), leaves every other cached field as it was, and
\* transmits exactly the resulting cached word; on a freshly constructed
\* handle enable() writes [0x01, 0x02, 0x20].
C5_EnableDisableFrame ==
  [][ /\ lastOp' = "enable" =>
           /\ ConfigurationFields(config')
                = [ConfigurationFields(config) EXCEPT !.mode = "Continuous"]
           /\ PayloadOf(bus'[1]) = config'
           /\ bus'[1].wr[1] = 1
      /\ lastOp' = "disable" =>
           /\ ConfigurationFields(config')
                = [ConfigurationFields(config) EXCEPT !.mode = "Shutdown"]
           /\ PayloadOf(bus'[1]) = config'
           /\ bus'[1].wr[1] = 1
      /\ (live /\ lastOp \in PlainConstructors \cup IdentifyOps /\ lastOp' = "enable") =>
           bus'[1].wr = << 1, 2, 32 >>
    ]_vars

C5_Witness ==
  /\ lastOp = "disable"
  /\ ConfigurationMode(config) = "Shutdown"
  /\ ConfigurationFields(config).conv = 2
  /\ bus[1].wr = << 1, 10, 32 >>

\* C6: the payload of reset() has the soft-reset bit set and otherwise equals
\* the cached word; when reset() returns, whether the write succeeded or not,
\* the cached soft-reset bit is false and every other cached field is
\* unchanged; the cached soft-reset bit is false in every state between
\* operations.
C6_SoftResetNeverCached ==
  /\ [](~ConfigurationSoftReset(config))
  /\ [][ lastOp' = "reset" =>
           /\ ConfigurationFields(PayloadOf(bus'[1]))
                = [ConfigurationFields(config) EXCEPT !.soft_reset = TRUE]
           /\ ConfigurationFields(config')
                = [ConfigurationFields(config) EXCEPT !.soft_reset = FALSE]
           /\ result'.tag \in {"Ok", "I2C"}
       ]_vars

C6_Witness ==
  /\ lastOp = "reset"
  /\ feed[1].outcome = "Nack"
  /\ bus[1].wr = << 1, 10, 34 >>
  /\ config = 2592

\* C7: when the transport fails the write of enable, disable, reset,
\* set_thigh_limit or set_tlow_limit, the operation returns the I2C error
\* carrying the transport's error unchanged after exactly one transaction,
\* and for enable/disable the cached word already holds the new mode.
C7_WriteFailureSurfaced ==
  (lastOp \in WritingOps /\ feed[1].outcome # "ok") =>
    /\ result.tag = "I2C"
    /\ result.err = feed[1].outcome
    /\ Len(bus) = 1
    /\ Len(feed) = 1
    /\ lastOp = "enable" => ConfigurationMode(config) = "Continuous"
    /\ lastOp = "disable" => ConfigurationMode(config) = "Shutdown"

C7_Witness ==
  /\ lastOp = "disable"
  /\ feed[1].outcome = "ArbitrationLoss"
  /\ result.tag = "I2C"
  /\ result.err = "ArbitrationLoss"
  /\ ConfigurationMode(config) = "Shutdown"

\* C8: for reply bytes (b0, b1) of a successful read of register 0x00,
\* read_temperature() returns n/128 degrees where n is the signed 16-bit
\* value of b0*256 + b1; 0x0190 gives 3.125 and 0xFE70 gives -3.125.
C8_TemperatureDecode ==
  (lastOp = "read_temperature" /\ feed[1].outcome = "ok") =>
    /\ bus = << [kind |-> "write_read", addr |-> address, wr |-> << 0 >>, rdlen |-> 2] >>
    /\ result.tag = "Ok"
    /\ result.val = CountToTicks(SignedCount(WordOf(feed[1].bytes)))
    /\ feed[1].bytes = << 1, 144 >> => result.val = Celsius3_125
    /\ feed[1].bytes = << 254, 112 >> => result.val = -Celsius3_125

C8_Witness ==
  /\ lastOp = "read_temperature"
  /\ feed[1].outcome = "ok"
  /\ feed[1].bytes = << 254, 112 >>
  /\ result.tag = "Ok"
  /\ result.val = -800

\* C9: read_temperature_limits() first issues a write-then-read of register
\* 0x02, then one of register 0x03, each writing one byte and reading 2; when
\* both succeed it returns (high, low), each a signed count times the
\* resolution; when the first read fails it returns that error and the second
\* read is never issued.
C9_LimitsReadOrder ==
  lastOp = "read_temperature_limits" =>
    /\ Len(bus) >= 1
    /\ bus[1] = [kind |-> "write_read", addr |-> address, wr |-> << 2 >>, rdlen |-> 2]
    /\ feed[1].outcome # "ok" =>
         /\ Len(bus) = 1
         /\ result.tag = "I2C"
         /\ result.err = feed[1].outcome
    /\ feed[1].outcome = "ok" =>
         /\ Len(bus) = 2
         /\ bus[2] = [kind |-> "write_read", addr |-> address, wr |-> << 3 >>, rdlen |-> 2]
         /\ feed[2].outcome = "ok" =>
              /\ result.tag = "Ok"
              /\ result.val = << CountToTicks(SignedCount(WordOf(feed[1].bytes))),
                                 CountToTicks(SignedCount(WordOf(feed[2].bytes))) >>

C9_Witness ==
  /\ lastOp = "read_temperature_limits"
  /\ Len(bus) = 2
  /\ feed[1].bytes = << 1, 144 >>
  /\ feed[2].bytes = << 254, 112 >>
  /\ result.tag = "Ok"
  /\ result.val = << 800, -800 >>

\* The words the field combinations encode to.
EncodedWords == {ConfigurationNew(f) : f \in Configurations}

\* C10: the Configuration codec is total and lossless: for every combination
\* of field values, decoding the encoded word yields the same value in every
\* field; distinct combinations encode to distinct 16-bit words; decoding any
\* word yields typed fields, the unassigned conversion-mode pattern decoding
\* to Continuous.
C10_CodecLossless ==
  /\ cfgPc \in {"word", "done"} => cfgWord \in 0..65535
  /\ cfgPc = "done" => cfgOut = cfgFields
  /\ cfgPc = "rawdone" =>
       /\ cfgOut \in Configurations
       /\ (cfgWord \div 2048) % 4 = 3 => cfgOut.mode = "Continuous"
  /\ Cardinality(EncodedWords) = Cardinality(Configurations)

C10_Witness ==
  /\ cfgPc = "done"
  /\ cfgFields.mode = "OneShot"
  /\ cfgFields.conv = 5
  /\ cfgFields.soft_reset
  /\ cfgWord = 4096 + 1280 + 2
  /\ cfgOut = cfgFields

====
